---- MODULE Spec2Model ----
(***************************************************************************)
(* CANDU on-power refuelling simulator (src/CanduRefuelingSimulator.py).   *)
(*                                                                         *)
(* Burnups are modelled as integers: burn_rate ranges over integer-valued  *)
(* floats, for which Python's float addition is exact.  An average is the  *)
(* pair num/den that np.mean divides (den = 0 is the NaN np.mean returns   *)
(* for an empty list).  Channels keep Python's 0-based indices: a core is  *)
(* a function on 0..n-1.  Logs and series are sequences.                   *)
(***************************************************************************)
EXTENDS Integers, Sequences, FiniteSets, TLC

\* Bounds of the model.
MaxChannels == 4      \* largest num_channels passed to CANDUSimulator
MaxRate == 2          \* largest burn_rate
MaxBundles == 5       \* largest bundles_per_step
MaxSteps == 4         \* largest total_steps
MaxInvalid == 2       \* arguments go down to -MaxInvalid
MaxCoreChannels == 3  \* largest Core built directly (direct-call specification)
MaxBurnup == 3        \* largest burnup reached by direct burn calls

VARIABLES
    num_channels,       \* argument num_channels of CANDUSimulator.__init__
    burn_rate,          \* self.burn_rate
    bundles_per_step,   \* self.bundles_per_step
    total_steps,        \* self.total_steps
    channels,           \* self.core.channels: index |-> bundle.burnup
    total_refuel_count, \* self.fm.total_refuel_count
    discharged_burnups, \* self.fm.discharged_burnups
    avg_burnup,         \* self.avg_burnup
    refuel_events,      \* self.refuel_events
    step,               \* loop variable of run() (0 before the first iteration)
    pc,                 \* position in run(), or in the direct-call sequence
    arg,                \* bundles_per_step argument of the last refuel_core call
    pre,                \* burnups at the start of the last refuel_core call
    sel,                \* indices of indexed[:bundles_per_step] in the last call
    burns,              \* index |-> number of FuelChannel.burn calls so far
    calls,              \* number of refuel_core calls so far
    installed           \* index |-> burns[index] when its current bundle was installed

config == <<num_channels, burn_rate, bundles_per_step, total_steps>>
series == <<avg_burnup, refuel_events>>
machine == <<total_refuel_count, discharged_burnups>>
lastcall == <<arg, pre, sel, calls, installed>>
vars == <<config, channels, machine, series, step, pc, lastcall, burns>>

Min(a, b) == IF a < b THEN a ELSE b
Max(a, b) == IF a > b THEN a ELSE b
Range(s) == {s[p] : p \in DOMAIN s}
NumChannels(chs) == Cardinality(DOMAIN chs)

----------------------------------------------------------------------------
\* FuelBundle, FuelChannel

\* FuelBundle.__init__: a fresh bundle's burnup.
FreshBurnup == 0

BurnTwice(b, rate) == b + rate + rate
\* FuelChannel.burn: self.bundle.burnup += rate
Burn(b, rate) == b + rate

RefuelKeepsBundle(b) == [discharged |-> b, burnup |-> b]
\* FuelChannel.refuel: the value returned and the burnup of the bundle installed.
Refuel(b) == [discharged |-> b, burnup |-> FreshBurnup]

----------------------------------------------------------------------------
\* Core

\* Core.__init__: range(num_channels) is empty for num_channels <= 0.
CoreInit(n) == [i \in 0..(n - 1) |-> FreshBurnup]

\* Core.burn_all: every channel burned once.
BurnAll(chs, rate) == [i \in DOMAIN chs |-> Burn(chs[i], rate)]

RECURSIVE SumUpTo(_, _)
SumUpTo(chs, n) == IF n = 0 THEN 0 ELSE SumUpTo(chs, n - 1) + chs[n - 1]

SumNotMean(chs) == [num |-> SumUpTo(chs, NumChannels(chs)), den |-> 1]
\* Core.average_burnup: float(np.mean(burnups)) = sum / count; 0/0 (NaN) when empty.
Mean(chs) == [num |-> SumUpTo(chs, NumChannels(chs)), den |-> NumChannels(chs)]

IsNaN(a) == a.den = 0
RatEq(a, b) == ~IsNaN(a) /\ ~IsNaN(b) /\ a.num * b.den = b.num * a.den
RatLess(a, b) == ~IsNaN(a) /\ ~IsNaN(b) /\ a.num * b.den < b.num * a.den
RatOfInt(x) == [num |-> x, den |-> 1]
\* a - b = x
RatDiffIs(a, b, x) ==
    ~IsNaN(a) /\ ~IsNaN(b) /\ a.num * b.den - b.num * a.den = x * a.den * b.den

----------------------------------------------------------------------------
\* FuellingMachine

\* One insertion of the stable descending sort: index i goes after every index
\* whose burnup is >= its own, before the first whose burnup is smaller.
InsertDesc(sorted, i, chs) ==
    LET smaller == {p \in 1..Len(sorted) : chs[sorted[p]] < chs[i]}
        at == IF smaller = {} THEN Len(sorted) + 1
              ELSE CHOOSE p \in smaller : \A q \in smaller : p <= q
    IN  SubSeq(sorted, 1, at - 1) \o <<i>> \o SubSeq(sorted, at, Len(sorted))

RECURSIVE SortFirst(_, _)
SortFirst(chs, n) ==
    IF n = 0 THEN <<>> ELSE InsertDesc(SortFirst(chs, n - 1), n - 1, chs)

InsertDescUnstable(sorted, i, chs) ==
    LET smaller == {p \in 1..Len(sorted) : chs[sorted[p]] <= chs[i]}
        at == IF smaller = {} THEN Len(sorted) + 1
              ELSE CHOOSE p \in smaller : \A q \in smaller : p <= q
    IN  SubSeq(sorted, 1, at - 1) \o <<i>> \o SubSeq(sorted, at, Len(sorted))

RECURSIVE SortFirstUnstable(_, _)
SortFirstUnstable(chs, n) ==
    IF n = 0 THEN <<>>
    ELSE InsertDescUnstable(SortFirstUnstable(chs, n - 1), n - 1, chs)

RankChannelsUnsorted(chs) == [p \in 1..NumChannels(chs) |-> p - 1]

RankChannelsUnstable(chs) == SortFirstUnstable(chs, NumChannels(chs))
\* indexed = list(enumerate(core.channels)); indexed.sort(key=burnup, reverse=True):
\* the indices by burnup descending; list.sort is stable, also with reverse=True.
RankChannels(chs) == SortFirst(chs, NumChannels(chs))

SliceNegativeIsEmpty(s, b) == SubSeq(s, 1, Min(Max(b, 0), Len(s)))

SliceOneMore(s, b) == SubSeq(s, 1, Min(b + 1, Len(s)))
\* Python's s[:b]: the first min(b, len) items for b >= 0, the first
\* max(len + b, 0) items for b < 0.
Slice(s, b) ==
    SubSeq(s, 1, IF b < 0 THEN Max(Len(s) + b, 0) ELSE Min(b, Len(s)))

RefuelOneOverwrites(st, idx) ==
    LET r == Refuel(st.channels[idx])
    IN  [channels |-> [st.channels EXCEPT ![idx] = r.burnup],
         discharged_burnups |-> <<r.discharged>>,
         total_refuel_count |-> st.total_refuel_count + 1]
\* One iteration of the loop of refuel_core on channel idx.
RefuelOne(st, idx) ==
    LET r == Refuel(st.channels[idx])
    IN  [channels |-> [st.channels EXCEPT ![idx] = r.burnup],
         discharged_burnups |-> Append(st.discharged_burnups, r.discharged),
         total_refuel_count |-> st.total_refuel_count + 1]

RECURSIVE RefuelLoopRerank(_, _)
RefuelLoopRerank(st, todo) ==
    IF todo = <<>> THEN st
    ELSE RefuelLoopRerank(RefuelOne(st, Head(RankChannels(st.channels))),
                          Tail(todo))

RECURSIVE RefuelLoop(_, _)
\* for idx, channel in indexed[:bundles_per_step]: ...
RefuelLoop(st, todo) ==
    IF todo = <<>> THEN st ELSE RefuelLoop(RefuelOne(st, Head(todo)), Tail(todo))

\* FuellingMachine.refuel_core(core, b)
refuel_core(b) ==
    LET chosen == Slice(RankChannels(channels), b)
        out == RefuelLoop([channels |-> channels,
                           discharged_burnups |-> discharged_burnups,
                           total_refuel_count |-> total_refuel_count], chosen)
    IN  /\ channels' = out.channels
        /\ discharged_burnups' = out.discharged_burnups
        /\ total_refuel_count' = out.total_refuel_count
        /\ arg' = b
        /\ pre' = channels
        /\ sel' = chosen
        /\ calls' = calls + 1
        /\ installed' = [i \in DOMAIN channels |->
                            IF i \in Range(chosen) THEN burns[i] ELSE installed[i]]

----------------------------------------------------------------------------
\* CANDUSimulator

Args ==
    [num_channels : (0 - MaxInvalid)..MaxChannels,
     burn_rate : (0 - MaxInvalid)..MaxRate,
     bundles_per_step : (0 - MaxInvalid)..MaxBundles,
     total_steps : (0 - MaxInvalid)..MaxSteps]

\* The state CANDUSimulator.__init__ leaves: it stores its arguments unchecked.
Constructed(a) ==
    /\ num_channels = a.num_channels
    /\ burn_rate = a.burn_rate
    /\ bundles_per_step = a.bundles_per_step
    /\ total_steps = a.total_steps
    /\ channels = CoreInit(a.num_channels)
    /\ total_refuel_count = 0
    /\ discharged_burnups = <<>>
    /\ avg_burnup = <<>>
    /\ refuel_events = <<>>
    /\ step = 0
    /\ arg = 0
    /\ pre = CoreInit(a.num_channels)
    /\ sel = <<>>
    /\ burns = [i \in 0..(a.num_channels - 1) |-> 0]
    /\ calls = 0
    /\ installed = [i \in 0..(a.num_channels - 1) |-> 0]

Init == \E a \in Args : Constructed(a) /\ pc = "burn"

\* run(): the next iteration starts with self.core.burn_all(self.burn_rate).
RunBurnAll ==
    /\ pc = "burn"
    /\ step < total_steps
    /\ step' = step + 1
    /\ channels' = BurnAll(channels, burn_rate)
    /\ burns' = [i \in DOMAIN burns |-> burns[i] + 1]
    /\ pc' = "refuel"
    /\ UNCHANGED <<config, machine, series, lastcall>>

\* run(): self.fm.refuel_core(self.core, self.bundles_per_step)
RunRefuelCore ==
    /\ pc = "refuel"
    /\ refuel_core(bundles_per_step)
    /\ pc' = "record"
    /\ UNCHANGED <<config, series, step, burns>>

RunRecordNoCount ==
    /\ pc = "record"
    /\ avg_burnup' = Append(avg_burnup, Mean(channels))
    /\ pc' = "burn"
    /\ UNCHANGED <<config, channels, machine, refuel_events, step, lastcall, burns>>
\* run(): the two appends that record the step's metrics.
RunRecord ==
    /\ pc = "record"
    /\ avg_burnup' = Append(avg_burnup, Mean(channels))
    /\ refuel_events' = Append(refuel_events, total_refuel_count)
    /\ pc' = "burn"
    /\ UNCHANGED <<config, channels, machine, step, lastcall, burns>>

\* run(): range(1, total_steps + 1) is exhausted and run returns.
RunReturn ==
    /\ pc = "burn"
    /\ step >= total_steps
    /\ pc' = "done"
    /\ UNCHANGED <<config, channels, machine, series, step, lastcall, burns>>

Next == RunBurnAll \/ RunRefuelCore \/ RunRecord \/ RunReturn

Spec == Init /\ [][Next]_vars

----------------------------------------------------------------------------
\* Direct calls: a Core and a FuellingMachine built on their own, channels
\* burned one by one through FuelChannel.burn, then one refuel_core call.

InitCalls ==
    /\ \E n \in 0..MaxCoreChannels :
          Constructed([num_channels |-> n, burn_rate |-> 0,
                       bundles_per_step |-> 0, total_steps |-> 0])
    /\ pc = "call"

\* core.channels[i].burn(rate)
CallBurn ==
    /\ pc = "call"
    /\ \E i \in DOMAIN channels, rate \in 1..MaxRate :
          /\ Burn(channels[i], rate) <= MaxBurnup
          /\ channels' = [channels EXCEPT ![i] = Burn(@, rate)]
          /\ burns' = [burns EXCEPT ![i] = @ + 1]
    /\ UNCHANGED <<config, machine, series, step, pc, lastcall>>

\* fm.refuel_core(core, b)
CallRefuelCore ==
    /\ pc = "call"
    /\ \E b \in (0 - MaxInvalid)..MaxBundles : refuel_core(b)
    /\ pc' = "returned"
    /\ UNCHANGED <<config, series, step, burns>>

NextCalls == CallBurn \/ CallRefuelCore

SpecCalls == InitCalls /\ [][NextCalls]_vars

----------------------------------------------------------------------------
\* Vocabulary of the properties

Indices == DOMAIN channels
N == NumChannels(channels)

\* Channel i ranks before channel j on the burnups b: higher burnup first,
\* equal burnups by ascending index.
RanksBefore(b, i, j) == b[i] > b[j] \/ (b[i] = b[j] /\ i < j)

ValidConfig ==
    /\ num_channels >= 1
    /\ burn_rate >= 0
    /\ bundles_per_step >= 0
    /\ total_steps >= 0

\* Between two iterations of run(), or after the last.
AtStepBoundary == pc \in {"burn", "done"}
Completed == IF pc \in {"burn", "done"} THEN step ELSE step - 1

----------------------------------------------------------------------------
\* C1: for every core state and every bundles_per_step >= 0, one refuel_core
\* call discharges exactly the channels in the first min(bundles_per_step, N)
\* positions of the ranking of all channels by burnup at the start of the call
\* (descending, equal burnups by ascending index), and what it appends to
\* discharged_burnups is those channels' burnups before discharge, in rank order.
C1_SelectsTopByRank ==
    (pc = "returned" /\ arg >= 0) =>
        LET k == Min(arg, N) IN
        /\ Len(sel) = k
        /\ Range(sel) \subseteq Indices
        /\ Cardinality(Range(sel)) = k
        /\ \A p, q \in 1..k : p < q => RanksBefore(pre, sel[p], sel[q])
        /\ \A i \in Range(sel), j \in Indices \ Range(sel) : RanksBefore(pre, i, j)
        /\ discharged_burnups = [p \in 1..k |-> pre[sel[p]]]
        /\ \A i \in Indices :
              channels[i] = IF i \in Range(sel) THEN FreshBurnup ELSE pre[i]

\* A call that cuts through a tie: of two channels of equal burnup one is
\* discharged and the other is not, and a third channel has another burnup.
C1_Witness ==
    /\ pc = "returned"
    /\ arg >= 1
    /\ \E i, j, h \in Indices :
          /\ pre[i] = pre[j] /\ i \in Range(sel) /\ j \notin Range(sel)
          /\ pre[h] > pre[i] /\ h \in Range(sel)

----------------------------------------------------------------------------
\* C10: FuelChannel.refuel on a channel of burnup b >= 0 (b = 0 included)
\* returns b and leaves the channel at burnup 0, so right after refuel_core
\* returns every channel it selected has burnup 0.
C10_RefuelReturnsAndResets ==
    (pc = "returned" /\ \A i \in Indices : pre[i] >= 0) =>
        /\ total_refuel_count = Len(sel)
        /\ Len(discharged_burnups) = Len(sel)
        /\ \A p \in 1..Len(sel) :
              /\ discharged_burnups[p] = pre[sel[p]]
              /\ channels[sel[p]] = 0

\* A call that discharged a channel of burnup 0 and one of positive burnup.
C10_Witness ==
    /\ pc = "returned"
    /\ \A i \in Indices : pre[i] >= 0
    /\ \E i, j \in Range(sel) : pre[i] = 0 /\ pre[j] > 0 /\ channels[j] = 0

----------------------------------------------------------------------------
\* C2: with bundles_per_step >= 0 and num_channels >= 1, after k completed
\* steps of run() total_refuel_count is k * min(bundles_per_step, num_channels),
\* and so is the k-th entry of the refuel-count series.
C2_CountIsStepsTimesMin ==
    (num_channels >= 1 /\ bundles_per_step >= 0) =>
        LET m == Min(bundles_per_step, num_channels) IN
        /\ AtStepBoundary => total_refuel_count = step * m
        /\ \A k \in 1..Len(refuel_events) : refuel_events[k] = k * m

\* A finished run of several steps that asked for more bundles than channels.
C2_Witness ==
    /\ pc = "done"
    /\ step >= 3
    /\ num_channels >= 2
    /\ bundles_per_step > num_channels
    /\ Len(refuel_events) = step
    /\ total_refuel_count = step * num_channels

----------------------------------------------------------------------------
FullRefuel == num_channels >= 1 /\ bundles_per_step >= num_channels

\* Every channel is refuelled in every step.
AllRefuelledEachStep ==
    pc = "record" => Range(sel) = Indices /\ \A i \in Indices : channels[i] = 0

\* C3 as stated: when bundles_per_step >= num_channels, every channel is
\* refuelled in every step and every entry of the average-burnup series equals
\* burn_rate.
C3_AverageIsBurnRate ==
    FullRefuel =>
        /\ AllRefuelledEachStep
        /\ \A k \in 1..Len(avg_burnup) : RatEq(avg_burnup[k], RatOfInt(burn_rate))

\* C3 amended: when bundles_per_step >= num_channels, every channel is refuelled
\* in every step and every entry of the average-burnup series is 0, the average
\* being taken after the refuel; burn_rate is what each discharge logs.
C3_AverageIsZero ==
    FullRefuel =>
        /\ AllRefuelledEachStep
        /\ \A k \in 1..Len(avg_burnup) : RatEq(avg_burnup[k], RatOfInt(0))
        /\ \A p \in 1..Len(discharged_burnups) : discharged_burnups[p] = burn_rate

\* A finished run with a positive burn rate that refuelled a whole core of
\* several channels in each of several steps.
C3_Witness ==
    /\ pc = "done"
    /\ FullRefuel
    /\ num_channels >= 2
    /\ burn_rate > 0
    /\ Len(avg_burnup) >= 2
    /\ total_refuel_count = step * num_channels

----------------------------------------------------------------------------
InvalidConfig == ~ValidConfig

\* C4: constructing the simulator with an invalid configuration ends in a
\* domain-validation error: no simulator in a runnable state comes out of it.
C4_InvalidConfigRejected ==
    InvalidConfig => pc \notin {"burn", "refuel", "record", "done"}

----------------------------------------------------------------------------
\* C5: for a valid configuration, at every step boundary both series have as
\* many entries as steps completed and discharged_burnups has total_refuel_count
\* entries; when run() completes both series have exactly total_steps entries
\* and every average is >= 0.
C5_SeriesLengths ==
    ValidConfig =>
        /\ AtStepBoundary =>
              /\ Len(avg_burnup) = step
              /\ Len(refuel_events) = step
              /\ Len(discharged_burnups) = total_refuel_count
        /\ pc = "done" =>
              /\ Len(avg_burnup) = total_steps
              /\ Len(refuel_events) = total_steps
              /\ \A k \in 1..Len(avg_burnup) :
                    ~RatLess(avg_burnup[k], RatOfInt(0)) /\ ~IsNaN(avg_burnup[k])

\* A finished run of a valid configuration that discharged bundles and
\* recorded a positive average.
C5_Witness ==
    /\ pc = "done"
    /\ ValidConfig
    /\ total_steps >= 3
    /\ total_refuel_count >= 3
    /\ Len(discharged_burnups) = total_refuel_count
    /\ RatLess(RatOfInt(0), avg_burnup[total_steps])

----------------------------------------------------------------------------
\* C6: each channel is burned exactly once per step, before that step's
\* refuel; right after the burn of a step that follows another, a channel
\* refuelled in the earlier step has burnup burn_rate and any other channel has
\* its burnup after the earlier step's burn plus burn_rate.
C6_BurnupBetweenBurns ==
    /\ \A i \in Indices : burns[i] = step
    /\ calls = IF pc = "refuel" THEN step - 1 ELSE step
    /\ (pc = "refuel" /\ step >= 2) =>
          \A i \in Indices :
              channels[i] = IF i \in Range(sel) THEN burn_rate
                            ELSE pre[i] + burn_rate

\* Right after the burn of a later step, with one channel refuelled in the
\* step before and another not.
C6_Witness ==
    /\ pc = "refuel"
    /\ step >= 3
    /\ burn_rate > 0
    /\ \E i, j \in Indices :
          /\ i \in Range(sel) /\ channels[i] = burn_rate
          /\ j \notin Range(sel) /\ channels[j] > burn_rate

----------------------------------------------------------------------------
NoRefuel == bundles_per_step = 0 /\ num_channels >= 1 /\ burn_rate >= 0

\* With bundles_per_step = 0 refuel_core is a no-op and the refuel counts are 0.
NoRefuelIsNoOp ==
    /\ pc = "record" => sel = <<>> /\ channels = pre
    /\ total_refuel_count = 0
    /\ discharged_burnups = <<>>
    /\ \A k \in 1..Len(refuel_events) : refuel_events[k] = 0

\* The average-burnup series starts at burn_rate and grows by burn_rate.
AverageGrowsByRate ==
    /\ Len(avg_burnup) >= 1 => RatEq(avg_burnup[1], RatOfInt(burn_rate))
    /\ \A k \in 2..Len(avg_burnup) :
          RatDiffIs(avg_burnup[k], avg_burnup[k - 1], burn_rate)

\* C7 as stated: with bundles_per_step = 0, num_channels >= 1 and any
\* burn_rate >= 0, refuel_core touches nothing, every refuel count is 0, and
\* each average is strictly greater than the previous one, by exactly burn_rate.
C7_AverageStrictlyIncreases ==
    NoRefuel =>
        /\ NoRefuelIsNoOp
        /\ AverageGrowsByRate
        /\ \A k \in 2..Len(avg_burnup) : RatLess(avg_burnup[k - 1], avg_burnup[k])

\* C7 amended: the same, the increase being strict only for burn_rate > 0;
\* with burn_rate = 0 every average is 0.
C7_AverageIncreasesByRate ==
    NoRefuel =>
        /\ NoRefuelIsNoOp
        /\ AverageGrowsByRate
        /\ \A k \in 2..Len(avg_burnup) :
              IF burn_rate > 0 THEN RatLess(avg_burnup[k - 1], avg_burnup[k])
              ELSE RatEq(avg_burnup[k], RatOfInt(0))

\* A finished run of several steps without refuelling, burn rate positive.
C7_Witness ==
    /\ pc = "done"
    /\ NoRefuel
    /\ burn_rate > 0
    /\ num_channels >= 2
    /\ Len(avg_burnup) >= 3
    /\ calls >= 3

----------------------------------------------------------------------------
Scenario1 ==
    /\ num_channels = 4
    /\ burn_rate = 1
    /\ bundles_per_step = 1
    /\ total_steps = 3

\* C8: with 4 channels, burn rate 1, 1 bundle per step and 3 steps, run()
\* refuels channel 0, then 1, then 2, ends with burnups [2,1,0,3] and
\* discharged_burnups [1,2,3], and records the averages 3/4, 5/4, 6/4 and the
\* refuel counts [1,2,3].
C8_Scenario1 ==
    Scenario1 =>
        /\ pc = "record" => sel = <<step - 1>>
        /\ pc = "done" =>
              /\ channels = (0 :> 2 @@ 1 :> 1 @@ 2 :> 0 @@ 3 :> 3)
              /\ discharged_burnups = <<1, 2, 3>>
              /\ avg_burnup = <<[num |-> 3, den |-> 4], [num |-> 5, den |-> 4],
                                [num |-> 6, den |-> 4]>>
              /\ refuel_events = <<1, 2, 3>>

\* The scenario's run has finished.
C8_Witness == Scenario1 /\ pc = "done" /\ step = 3 /\ calls = 3

----------------------------------------------------------------------------
\* C9: average_burnup() on a core without channels signals a domain error:
\* no NaN is returned and recorded in the average-burnup series.
C9_EmptyMeanNotRecorded ==
    \A k \in 1..Len(avg_burnup) : ~IsNaN(avg_burnup[k])

----------------------------------------------------------------------------
IsPrefix(s, t) == Len(s) <= Len(t) /\ SubSeq(t, 1, Len(s)) = s

\* C11: over any sequence of burn, refuel and record steps total_refuel_count
\* never decreases and grows by one per discharge, discharged_burnups and the
\* two recorded series only grow by appending (every earlier prefix is kept),
\* and the refuel-count series is non-decreasing.
C11_AppendOnly ==
    [][ /\ total_refuel_count' >= total_refuel_count
        /\ total_refuel_count' - total_refuel_count
              = Len(discharged_burnups') - Len(discharged_burnups)
        /\ calls' # calls =>
              total_refuel_count' - total_refuel_count = Len(sel')
        /\ IsPrefix(discharged_burnups, discharged_burnups')
        /\ IsPrefix(avg_burnup, avg_burnup')
        /\ IsPrefix(refuel_events, refuel_events')
        /\ \A k \in 2..Len(refuel_events') :
              refuel_events'[k - 1] <= refuel_events'[k]
        /\ \A k \in 1..Len(refuel_events') :
              refuel_events'[k] <= total_refuel_count' ]_vars

\* A finished run of several steps that discharged several bundles in each,
\* of differing burnups.
C11_Witness ==
    /\ pc = "done"
    /\ step >= 3
    /\ Len(sel) >= 2
    /\ total_refuel_count = step * Len(sel)
    /\ Len(refuel_events) = step
    /\ \E p, q \in 1..Len(discharged_burnups) :
          discharged_burnups[p] # discharged_burnups[q]

----------------------------------------------------------------------------
CeilDiv(n, b) == (n + b - 1) \div b

\* Burns of channel i since its current bundle was installed.
Age(i) == burns[i] - installed[i]

\* C12: with num_channels = N >= 1, bundles_per_step = B >= 1 and burn_rate > 0
\* the policy rotates through the core: after every completed step no channel
\* has been burned more than ceil(N/B) - 1 times since its bundle was
\* installed, and no value appended to discharged_burnups exceeds
\* ceil(N/B) * burn_rate.
C12_NoChannelStarved ==
    (num_channels >= 1 /\ bundles_per_step >= 1 /\ burn_rate > 0) =>
        LET rounds == CeilDiv(num_channels, bundles_per_step) IN
        /\ \A i \in Indices : channels[i] = Age(i) * burn_rate
        /\ AtStepBoundary => \A i \in Indices : Age(i) <= rounds - 1
        /\ \A p \in 1..Len(discharged_burnups) :
              discharged_burnups[p] <= rounds * burn_rate

\* A finished run in which bundles_per_step does not divide num_channels, a
\* bundle was discharged at ceil(N/B) * burn_rate and a channel is at the
\* largest age allowed.
C12_Witness ==
    /\ pc = "done"
    /\ burn_rate > 0
    /\ bundles_per_step >= 2
    /\ num_channels > bundles_per_step
    /\ num_channels % bundles_per_step # 0
    /\ LET rounds == CeilDiv(num_channels, bundles_per_step) IN
          /\ \E p \in 1..Len(discharged_burnups) :
                discharged_burnups[p] = rounds * burn_rate
          /\ \E i \in Indices : Age(i) = rounds - 1

----------------------------------------------------------------------------
\* s lists, in rank order on the burnups b, channels that all rank before
\* every channel it leaves out.
IsTopOfRanking(s, b) ==
    /\ Range(s) \subseteq DOMAIN b
    /\ Cardinality(Range(s)) = Len(s)
    /\ \A p, q \in 1..Len(s) : p < q => RanksBefore(b, s[p], s[q])
    /\ \A i \in Range(s), j \in (DOMAIN b) \ Range(s) : RanksBefore(b, i, j)

\* C13: a negative bundles_per_step = -k is neither rejected nor a no-op: the
\* slice selects the first max(N - k, 0) channels of the ranking, those are
\* discharged, and total_refuel_count grows by max(N - k, 0) in the call.
C13_NegativeSliceDischarges ==
    (bundles_per_step < 0 /\ pc = "record") =>
        LET m == Max(N + bundles_per_step, 0) IN
        /\ arg = bundles_per_step
        /\ Len(sel) = m
        /\ IsTopOfRanking(sel, pre)
        /\ \A i \in Range(sel) : channels[i] = FreshBurnup
        /\ total_refuel_count = step * m
        /\ Len(discharged_burnups) = step * m
        /\ \A p \in 1..m :
              discharged_burnups[(step - 1) * m + p] = pre[sel[p]]

\* A refuel_core call of a later step with a negative bundles_per_step that
\* discharged several channels and left one of lower burnup alone.
C13_Witness ==
    /\ pc = "record"
    /\ bundles_per_step < 0
    /\ step >= 2
    /\ burn_rate > 0
    /\ Len(sel) >= 2
    /\ total_refuel_count = step * Len(sel)
    /\ \E i \in Range(sel), j \in Indices \ Range(sel) : pre[i] > pre[j]

----------------------------------------------------------------------------
\* C14: a refuel_core call ranks the channels once, on the burnups at its
\* start, so it discharges no channel twice; it leaves the burnup of every
\* channel it does not select unchanged; and the core has the same channels in
\* the same positions before and after every burn_all and refuel_core call.
C14_CallsKeepTheCore ==
    [][ /\ DOMAIN channels' = DOMAIN channels
        /\ calls' # calls =>
              /\ pre' = channels
              /\ IsTopOfRanking(sel', channels)
              /\ total_refuel_count' - total_refuel_count
                    = Cardinality(Range(sel'))
              /\ \A p \in 1..Len(sel') :
                    discharged_burnups'[Len(discharged_burnups) + p]
                        = channels[sel'[p]]
              /\ \A i \in DOMAIN channels :
                    channels'[i] = IF i \in Range(sel') THEN FreshBurnup
                                   ELSE channels[i]
        /\ burns' # burns =>
              \A i \in DOMAIN channels : channels'[i] = channels[i] + burn_rate
        /\ (calls' = calls /\ burns' = burns) => channels' = channels ]_vars

\* After a refuel_core call of a later step that discharged several channels
\* of positive burnup and left a channel of positive burnup alone.
C14_Witness ==
    /\ pc = "record"
    /\ step >= 2
    /\ Len(sel) >= 2
    /\ \A i \in Range(sel) : pre[i] > 0 /\ channels[i] = 0
    /\ \E j \in Indices \ Range(sel) : channels[j] = pre[j] /\ pre[j] > 0

====
